---- MODULE Spec2Model ----
(***************************************************************************)
(* Model of the Hive position and move generator of nokamute               *)
(* (src/src/board.rs): the lazily allocated hexagonal cell arena, the      *)
(* tile stacks, the reserves, the queen-cell cache, the Zobrist hash with  *)
(* its history, the move generator and apply/undo.                         *)
(***************************************************************************)
EXTENDS Integers, Sequences, FiniteSets, TLC

(***************************************************************************)
(* Bounds of the exploration.                                              *)
(***************************************************************************)
\* Half-moves the search layer applies on one line of play.
MaxMoveNum == 3
\* Undo operations of the search layer on one line of play.
MaxUndo == 1
\* Half-moves of a game played move by move.
MaxGameNum == 8
\* Half-moves played freely after a line of EndBook.
MaxEndFree == 1
\* Half-moves played freely after the line OverLine.
MaxOverFree == 1

(***************************************************************************)
(* Types of board.rs.                                                      *)
(***************************************************************************)
UNASSIGNED == 0

Queen == 0
Grasshopper == 1
Spider == 2
Ant == 3
Beetle == 4
Bug == {Queen, Grasshopper, Spider, Ant, Beetle}

Black == 0
White == 1
Color == {Black, White}

\* i8::MAX, the coordinate of the dummy cell of id 0.
I8_MAX == 127

\* The largest Id (u8).
MAX_ID == 255

\* The six neighbour coordinates, clockwise; direction d is element d + 1.
adjacent(loc) ==
    LET x == loc[1]
        y == loc[2]
    IN  << <<x - 1, y - 1>>, <<x, y - 1>>, <<x + 1, y>>,
           <<x + 1, y + 1>>, <<x, y + 1>>, <<x - 1, y>> >>

\* A tile without its stack; a cell holds the sequence of its tiles, top
\* first, so that Tail is `underneath` and the empty sequence is None.
Tile(bug, color) == [bug |-> bug, color |-> color]

\* Tile::height of the top tile of a non-empty stack.
height(stack) == Len(stack) - 1

Node(adj, tile) == [adj |-> adj, tile |-> tile]

\* Move::Place, Move::Movement, Move::Pass.
Place(id, bug) == <<"Place", id, bug>>
Movement(start, end) == <<"Movement", start, end>>
Pass == <<"Pass">>

(***************************************************************************)
(* Zobrist words.  A u64 is the set of its one bits, XOR is the symmetric  *)
(* difference and rotate_left adds the rotation to every bit position      *)
(* modulo 64.  The table itself lives in zobrist.rs: it is modelled as a   *)
(* fixed table of pseudo-random words.                                     *)
(***************************************************************************)
\* The width of the hash (u64).
WordBits == 64

Xor(a, b) == (a \ b) \cup (b \ a)

rotate_left(word, n) == {(i + n) % WordBits : i \in word}

ZOBRIST_TABLE ==
    [k \in 0..(MAX_ID * 16 + 15) |->
        {i \in 0..(WordBits - 1) :
            ((k * 7919 + i * 104729 + k * i * 31 + (k \div 3) * (i \div 5)) % 1009) % 2 = 1}]

zobrist(id, bug, color, h) ==
    rotate_left(ZOBRIST_TABLE[id * 16 + bug * 2 + color], h)

(***************************************************************************)
(* Board accessors.  Vectors indexed by Id are sequences: id is at id + 1. *)
(***************************************************************************)
to_move(b) == IF b.move_num % 2 = 0 THEN Black ELSE White

loc(b, id) == b.id_to_loc[id + 1]

get(b, id) == b.nodes[id + 1].tile

adj_of(b, id) == b.nodes[id + 1].adj

get_remaining(b) == b.remaining[b.move_num % 2]

\* Mutant: the queen is never required.
queen_required_Never(b) == FALSE

\* Board::queen_required
queen_required(b) == b.move_num > 5 /\ get_remaining(b)[Queen] > 0

(***************************************************************************)
(* Cell arena.                                                             *)
(***************************************************************************)
RECURSIVE AllocLink(_, _, _, _)
\* Mutant: the link back from the neighbour is stored two directions on,
\* not three.
AllocLink_WrongOpposite(b, nodes, node, i) ==
    IF i > 5 THEN [nodes |-> nodes, node |-> node]
    ELSE LET a == adjacent(loc(b, Len(b.nodes)))[i + 1]
         IN  IF a \in DOMAIN b.loc_to_id
             THEN LET id == b.loc_to_id[a]
                  IN  AllocLink(b,
                        [nodes EXCEPT ![id + 1].adj[((i + 2) % 6) + 1] = Len(b.nodes)],
                        [node EXCEPT !.adj[i + 1] = id], i + 1)
             ELSE AllocLink(b, nodes, node, i + 1)

\* The linking loop of alloc from direction i on: `nodes` are the cells
\* allocated before, `node` is the new cell.  Yields both.
AllocLink(b, nodes, node, i) ==
    IF i > 5 THEN [nodes |-> nodes, node |-> node]
    ELSE LET a == adjacent(loc(b, Len(b.nodes)))[i + 1]
         IN  IF a \in DOMAIN b.loc_to_id
             THEN LET id == b.loc_to_id[a]
                  IN  AllocLink(b,
                        [nodes EXCEPT ![id + 1].adj[((i + 3) % 6) + 1] = Len(b.nodes)],
                        [node EXCEPT !.adj[i + 1] = id], i + 1)
             ELSE AllocLink(b, nodes, node, i + 1)

\* The end of alloc: the linked cells are stored and the new cell pushed.
AllocPush(b, r) == [b EXCEPT !.nodes = Append(r.nodes, r.node)]

\* alloc of a coordinate not yet in the arena, after the two maps have
\* got it: link the new cell with its neighbours, then push it.
AllocNew(b) ==
    AllocPush(b, AllocLink(b, b.nodes, Node([i \in 1..6 |-> UNASSIGNED], <<>>), 0))

\* Mutant: a coordinate already in the arena gets a new cell all the same.
alloc_Again(b, l) ==
    AllocNew([b EXCEPT !.loc_to_id = [k \in DOMAIN b.loc_to_id \cup {l} |->
                                         IF k = l THEN Len(b.nodes) ELSE b.loc_to_id[k]],
                       !.id_to_loc = Append(b.id_to_loc, l)])

\* Board::alloc: the board after the call; the id returned is loc_to_id[l].
alloc(b, l) ==
    IF l \in DOMAIN b.loc_to_id THEN b
    ELSE AllocNew([b EXCEPT !.loc_to_id = [k \in DOMAIN b.loc_to_id \cup {l} |->
                                              IF k = l THEN Len(b.nodes) ELSE b.loc_to_id[k]],
                            !.id_to_loc = Append(b.id_to_loc, l)])

\* Board::id: the id returned; the board after the call is alloc(b, l).
id_for(b, l) == alloc(b, l).loc_to_id[l]

RECURSIVE AllocSurroundingFrom(_, _, _)
AllocSurroundingFrom(b, id, i) ==
    IF i > 5 THEN b
    ELSE AllocSurroundingFrom(
            IF adj_of(b, id)[i + 1] = UNASSIGNED
            THEN alloc(b, adjacent(loc(b, id))[i + 1])
            ELSE b,
            id, i + 1)

\* Board::alloc_surrounding
alloc_surrounding(b, id) == AllocSurroundingFrom(b, id, 0)

(***************************************************************************)
(* Tile stacks.                                                            *)
(***************************************************************************)
\* Mutant: the cells around a newly occupied cell are not allocated.
insert_NoSurround(b, id, bug, color) ==
    LET prev == get(b, id)
        tile == <<Tile(bug, color)>> \o prev
        b2 == [b EXCEPT !.zobrist_hash = Xor(@, zobrist(id, bug, color, height(tile))),
                        !.nodes[id + 1].tile = tile]
    IN  IF bug = Queen
        THEN [b2 EXCEPT !.queens[b.move_num % 2] = id]
        ELSE b2

\* Board::insert
insert(b, id, bug, color) ==
    LET prev == get(b, id)
        b1 == IF prev # <<>> THEN b ELSE alloc_surrounding(b, id)
        tile == <<Tile(bug, color)>> \o prev
        b2 == [b1 EXCEPT !.zobrist_hash = Xor(@, zobrist(id, bug, color, height(tile))),
                         !.nodes[id + 1].tile = tile]
    IN  IF bug = Queen
        THEN [b2 EXCEPT !.queens[b.move_num % 2] = id]
        ELSE b2

\* Mutant: the lifted tile is hashed out at height 0.
remove_FlatHash(b, id) ==
    LET tile == get(b, id)
    IN  [b EXCEPT !.zobrist_hash = Xor(@, zobrist(id, tile[1].bug, tile[1].color, 0)),
                  !.nodes[id + 1].tile = Tail(tile)]

\* Board::remove: the board after the call; the tile returned is the head
\* of the stack before it.
remove(b, id) ==
    LET tile == get(b, id)
    IN  [b EXCEPT !.zobrist_hash =
                      Xor(@, zobrist(id, tile[1].bug, tile[1].color, height(tile))),
                  !.nodes[id + 1].tile = Tail(tile)]

(***************************************************************************)
(* impl Default for Board                                                  *)
(***************************************************************************)
fake_loc == <<I8_MAX, I8_MAX>>

START_REMAINING == [c \in Color |-> <<1, 3, 2, 3, 2>>]

Default ==
    alloc(alloc(
        [nodes |-> <<Node([i \in 1..6 |-> UNASSIGNED], <<>>)>>,
         id_to_loc |-> <<fake_loc>>,
         loc_to_id |-> [k \in {fake_loc} |-> 0],
         remaining |-> [c \in Color |-> [g \in Bug |-> START_REMAINING[c][g + 1]]],
         queens |-> [c \in Color |-> UNASSIGNED],
         move_num |-> 0,
         zobrist_hash |-> {},
         zobrist_history |-> <<>>],
        <<0, 0>>), <<1, 0>>)

(***************************************************************************)
(* impl minimax::Move for Move                                             *)
(***************************************************************************)
\* The last two statements of apply.
ApplyEnd(b) ==
    [b EXCEPT !.move_num = @ + 1,
              !.zobrist_history = Append(@, b.zobrist_hash)]

\* Mutant: a pass leaves the move number and the history as they are.
apply_PassKeepsTurn(m, b) ==
    CASE m[1] = "Place" ->
           ApplyEnd([insert(b, m[2], m[3], to_move(b))
                        EXCEPT !.remaining[b.move_num % 2][m[3]] = @ - 1])
      [] m[1] = "Movement" ->
           ApplyEnd(insert(remove(b, m[2]), m[3],
                           get(b, m[2])[1].bug, get(b, m[2])[1].color))
      [] OTHER -> b

\* Move::apply
apply(m, b) ==
    ApplyEnd(CASE m[1] = "Place" ->
                  [insert(b, m[2], m[3], to_move(b))
                      EXCEPT !.remaining[b.move_num % 2][m[3]] = @ - 1]
               [] m[1] = "Movement" ->
                  insert(remove(b, m[2]), m[3],
                         get(b, m[2])[1].bug, get(b, m[2])[1].color)
               [] OTHER -> b)

\* Mutant: undo leaves the hash history as it is.
UndoBegin_KeepHistory(b) == [b EXCEPT !.move_num = @ - 1]

\* The first two statements of undo.
UndoBegin(b) ==
    [b EXCEPT !.move_num = @ - 1,
              !.zobrist_history = SubSeq(@, 1, Len(@) - 1)]

\* Mutant: undoing a placement does not give the tile back to the reserve.
undo_KeepReserve(m, b) ==
    CASE m[1] = "Place" -> remove(UndoBegin(b), m[2])
      [] m[1] = "Movement" ->
           insert(remove(UndoBegin(b), m[3]), m[2],
                  get(b, m[3])[1].bug, get(b, m[3])[1].color)
      [] OTHER -> UndoBegin(b)

\* Move::undo
undo(m, b) ==
    CASE m[1] = "Place" ->
           [remove(UndoBegin(b), m[2])
               EXCEPT !.remaining[(b.move_num - 1) % 2][m[3]] = @ + 1]
      [] m[1] = "Movement" ->
           insert(remove(UndoBegin(b), m[3]), m[2],
                  get(b, m[3])[1].bug, get(b, m[3])[1].color)
      [] OTHER -> UndoBegin(b)

(***************************************************************************)
(* Move generation.  A generator yields the moves it writes to the buffer, *)
(* in the order it writes them.                                            *)
(***************************************************************************)
RECURSIVE Flatten(_)
\* The concatenation of a sequence of sequences.
Flatten(ss) ==
    IF ss = <<>> THEN <<>>
    ELSE IF Len(ss) = 1 THEN ss[1]
    ELSE Flatten(SubSeq(ss, 1, Len(ss) \div 2))
            \o Flatten(SubSeq(ss, (Len(ss) \div 2) + 1, Len(ss)))

Min(a, c) == IF a < c THEN a ELSE c

\* Board::get_available_bugs
get_available_bugs(b) ==
    LET remaining == get_remaining(b)
    IN  << <<Queen, remaining[Queen]>>, <<Grasshopper, remaining[Grasshopper]>>,
           <<Spider, remaining[Spider]>>, <<Ant, remaining[Ant]>>,
           <<Beetle, remaining[Beetle]>> >>

\* Mutant: a bug is offered whatever is left of it in the reserve.
PlacementsAt_AnyBug(b, id) ==
    IF get(b, id) # <<>> THEN <<>>
    ELSE LET adj == adj_of(b, id)
             num_buddies == Cardinality({i \in 1..6 :
                 get(b, adj[i]) # <<>> /\ get(b, adj[i])[1].color = to_move(b)})
             num_enemies == Cardinality({i \in 1..6 :
                 get(b, adj[i]) # <<>> /\ get(b, adj[i])[1].color # to_move(b)})
             avail == get_available_bugs(b)
         IN  IF num_buddies > 0 /\ num_enemies = 0
             THEN Flatten([k \in 1..5 |->
                     IF queen_required(b) /\ avail[k][1] # Queen THEN <<>>
                     ELSE <<Place(id, avail[k][1])>>])
             ELSE <<>>

\* Mutant: a cell with a neighbour of the other colour is not excluded.
PlacementsAt_AnyNeighbour(b, id) ==
    IF get(b, id) # <<>> THEN <<>>
    ELSE LET adj == adj_of(b, id)
             num_buddies == Cardinality({i \in 1..6 :
                 get(b, adj[i]) # <<>> /\ get(b, adj[i])[1].color = to_move(b)})
             avail == get_available_bugs(b)
         IN  IF num_buddies > 0
             THEN Flatten([k \in 1..5 |->
                     IF queen_required(b) /\ avail[k][1] # Queen THEN <<>>
                     ELSE IF avail[k][2] > 0 THEN <<Place(id, avail[k][1])>>
                     ELSE <<>>])
             ELSE <<>>

\* Mutant: a bug is offered for placement with none left in reserve.
PlacementsAt_EmptyReserve(b, id) ==
    IF get(b, id) # <<>> THEN <<>>
    ELSE LET adj == adj_of(b, id)
             num_buddies == Cardinality({i \in 1..6 :
                 get(b, adj[i]) # <<>> /\ get(b, adj[i])[1].color = to_move(b)})
             num_enemies == Cardinality({i \in 1..6 :
                 get(b, adj[i]) # <<>> /\ get(b, adj[i])[1].color # to_move(b)})
             avail == get_available_bugs(b)
         IN  IF num_buddies > 0 /\ num_enemies = 0
             THEN Flatten([k \in 1..5 |->
                     IF queen_required(b) /\ avail[k][1] # Queen THEN <<>>
                     ELSE <<Place(id, avail[k][1])>>])
             ELSE <<>>

\* The body of the loop of generate_placements for the cell id.
PlacementsAt(b, id) ==
    IF get(b, id) # <<>> THEN <<>>
    ELSE LET adj == adj_of(b, id)
             num_buddies == Cardinality({i \in 1..6 :
                 get(b, adj[i]) # <<>> /\ get(b, adj[i])[1].color = to_move(b)})
             num_enemies == Cardinality({i \in 1..6 :
                 get(b, adj[i]) # <<>> /\ get(b, adj[i])[1].color # to_move(b)})
             avail == get_available_bugs(b)
         IN  IF num_buddies > 0 /\ num_enemies = 0
             THEN Flatten([k \in 1..5 |->
                     IF queen_required(b) /\ avail[k][1] # Queen THEN <<>>
                     ELSE IF avail[k][2] > 0 THEN <<Place(id, avail[k][1])>>
                     ELSE <<>>])
             ELSE <<>>

\* Board::generate_placements
generate_placements(b) ==
    Flatten([id \in 1..(Len(b.nodes) - 1) |-> PlacementsAt(b, id)])

\* Mutant: a child that reaches no higher than id itself does not make id
\* immovable.
DfsAfterChild_Strict(state, id, parent, adj) ==
    IF state.low[adj] > state.num[id] /\ parent # UNASSIGNED
    THEN [state EXCEPT !.low[id] = Min(@, state.low[adj]),
                       !.immovable = @ \cup {id}]
    ELSE [state EXCEPT !.low[id] = Min(@, state.low[adj])]

\* The statements of dfs after the recursive call on the child adj.
DfsAfterChild(state, id, parent, adj) ==
    IF state.low[adj] >= state.num[id] /\ parent # UNASSIGNED
    THEN [state EXCEPT !.low[id] = Min(@, state.low[adj]),
                       !.immovable = @ \cup {id}]
    ELSE [state EXCEPT !.low[id] = Min(@, state.low[adj])]

\* The neighbours the loop of dfs does not skip with `continue`: the
\* occupied ones other than the parent, in the order of the directions.
DfsNeighbours(b, id, parent) ==
    SelectSeq(adj_of(b, id), LAMBDA adj : get(b, adj) # <<>> /\ adj # parent)

RECURSIVE dfs(_, _, _, _)
RECURSIVE DfsLoop(_, _, _, _, _, _)
\* Mutant: the root of the traversal is immovable with a single child.
DfsLoop_RootOneChild(b, state, id, parent, todo, children) ==
    IF todo = <<>>
    THEN IF parent = UNASSIGNED /\ children > 0
         THEN [state EXCEPT !.immovable = @ \cup {id}]
         ELSE state
    ELSE IF Head(todo) \in state.visited
         THEN DfsLoop(b, [state EXCEPT !.low[id] = Min(@, state.num[Head(todo)])],
                      id, parent, Tail(todo), children)
         ELSE DfsLoop(b, DfsAfterChild(dfs(b, state, Head(todo), id), id, parent, Head(todo)),
                      id, parent, Tail(todo), children + 1)

\* The loop over the neighbours of id in dfs of find_cut_vertexes, with
\* the neighbours `todo` still to visit and `children` counted so far;
\* then the root test.
DfsLoop(b, state, id, parent, todo, children) ==
    IF todo = <<>>
    THEN IF parent = UNASSIGNED /\ children > 1
         THEN [state EXCEPT !.immovable = @ \cup {id}]
         ELSE state
    ELSE IF Head(todo) \in state.visited
         THEN DfsLoop(b, [state EXCEPT !.low[id] = Min(@, state.num[Head(todo)])],
                      id, parent, Tail(todo), children)
         ELSE DfsLoop(b, DfsAfterChild(dfs(b, state, Head(todo), id), id, parent, Head(todo)),
                      id, parent, Tail(todo), children + 1)

dfs(b, state, id, parent) ==
    DfsLoop(b,
            [state EXCEPT !.visited = @ \cup {id},
                          !.num[id] = state.visit_num,
                          !.low[id] = state.visit_num,
                          !.visit_num = @ + 1],
            id, parent, DfsNeighbours(b, id, parent), 0)

\* The first occupied cell, the root of the traversal.
FirstOccupied(b) ==
    CHOOSE id \in 0..(Len(b.nodes) - 1) :
        /\ get(b, id) # <<>>
        /\ \A j \in 0..(id - 1) : get(b, j) = <<>>

\* Board::find_cut_vertexes: the immovable set.
find_cut_vertexes(b) ==
    dfs(b,
        [visited |-> {}, immovable |-> {},
         num |-> [id \in 0..(Len(b.nodes) - 1) |-> 0],
         low |-> [id \in 0..(Len(b.nodes) - 1) |-> 0],
         visit_num |-> 1],
        FirstOccupied(b), UNASSIGNED).immovable

\* Bit k of the non-negative integer n.
Bit(n, k) == (n \div (2 ^ k)) % 2

\* Mutant: the mask is not wrapped around below direction 0.
SlideableDirs_NoWrap ==
    [occ \in 0..63 |->
        LET o1 == occ + occ * 64
            occupied == o1 * 2
            slideable(k) == /\ Bit(occupied, k) = 0
                            /\ Bit(occupied * 2, k) # Bit(occupied \div 2, k)
        IN  SelectSeq(<<0, 1, 2, 3, 4, 5>>, LAMBDA i : slideable(i + 1))]

\* Mutant: a free direction with an occupied side on either hand is an
\* exit, also when both sides are occupied.
SlideableDirs_EitherSide ==
    [occ \in 0..63 |->
        LET o1 == occ + occ * 64
            occupied == (o1 * 2) + ((o1 \div 32) % 2)
            slideable(k) == /\ Bit(occupied, k) = 0
                            /\ Bit(occupied * 2, k) + Bit(occupied \div 2, k) > 0
        IN  SelectSeq(<<0, 1, 2, 3, 4, 5>>, LAMBDA i : slideable(i + 1))]

\* The bit arithmetic of slideable_adjacent on the 6-bit occupancy mask:
\* the directions found slideable, in ascending order.
SlideableDirs ==
    [occ \in 0..63 |->
        LET o1 == occ + occ * 64
            occupied == (o1 * 2) + ((o1 \div 32) % 2)
            slideable(k) == /\ Bit(occupied, k) = 0
                            /\ Bit(occupied * 2, k) # Bit(occupied \div 2, k)
        IN  SelectSeq(<<0, 1, 2, 3, 4, 5>>, LAMBDA i : slideable(i + 1))]

\* The occupancy mask of slideable_adjacent: bit i is neighbour i occupied
\* and not the origin.
OccupiedMask(b, origin, id) ==
    LET neighbors == adj_of(b, id)
        bit(i) == IF get(b, neighbors[i + 1]) # <<>> /\ neighbors[i + 1] # origin
                  THEN 2 ^ i ELSE 0
    IN  bit(0) + bit(1) + bit(2) + bit(3) + bit(4) + bit(5)

\* The neighbours of id in the directions dirs.
NeighborsAt(b, id, dirs) == [k \in 1..Len(dirs) |-> adj_of(b, id)[dirs[k] + 1]]

\* Board::slideable_adjacent: the Some entries of the result, in order.
slideable_adjacent(b, origin, id) ==
    NeighborsAt(b, id, SlideableDirs[OccupiedMask(b, origin, id)])

\* Board::generate_stack_walking
generate_stack_walking(b, id) ==
    [k \in 1..6 |-> Movement(id, adj_of(b, id)[k])]

RECURSIVE JumpFrom(_, _, _, _)
\* The while loop of generate_jumps: the cell reached and the distance.
JumpFrom(b, jump, dir, dist) ==
    IF get(b, jump) # <<>>
    THEN JumpFrom(b, adj_of(b, jump)[dir + 1], dir, dist + 1)
    ELSE <<jump, dist>>

\* Mutant: a move also to an empty neighbour, with no tile jumped.
JumpMove_NoHop(id, r) == IF r[2] > 0 THEN <<Movement(id, r[1])>> ELSE <<>>

\* The move of generate_jumps for one direction: r is the cell reached and
\* the distance.
JumpMove(id, r) == IF r[2] > 1 THEN <<Movement(id, r[1])>> ELSE <<>>

\* Board::generate_jumps
generate_jumps(b, id) ==
    Flatten([k \in 1..6 |-> JumpMove(id, JumpFrom(b, id, k - 1, 0))])

\* Mutant: a step to every neighbour, occupied or not.
generate_walk_up_Everywhere(b, id) ==
    [k \in 1..6 |-> Movement(id, adj_of(b, id)[k])]

\* Board::generate_walk_up
generate_walk_up(b, id) ==
    Flatten([k \in 1..6 |->
        IF get(b, adj_of(b, id)[k]) # <<>>
        THEN <<Movement(id, adj_of(b, id)[k])>> ELSE <<>>])

\* One Movement from id to each of the cells ends.
MovementsTo(id, ends) == [k \in 1..Len(ends) |-> Movement(id, ends[k])]

\* Mutant: a step to every empty neighbour, slideable or not.
generate_walk1_AnyEmpty(b, id) ==
    Flatten([k \in 1..6 |->
        IF get(b, adj_of(b, id)[k]) = <<>>
        THEN <<Movement(id, adj_of(b, id)[k])>> ELSE <<>>])

\* Board::generate_walk1
generate_walk1(b, id) == MovementsTo(id, slideable_adjacent(b, id, id))

RECURSIVE Walk3Dfs(_, _, _, _)
RECURSIVE Walk3Each(_, _, _, _)
\* The loop of the dfs of generate_walk3 over the slideable neighbours sl.
Walk3Each(b, sl, orig, path) ==
    Flatten([k \in 1..Len(sl) |-> Walk3Dfs(b, sl[k], orig, path)])

\* Mutant: the walk ends after two steps.
Walk3Dfs_TwoSteps(b, id, orig, path) ==
    IF \E k \in 1..Len(path) : path[k] = id THEN <<>>
    ELSE IF Len(path) = 2 THEN <<Movement(orig, id)>>
    ELSE Walk3Each(b, slideable_adjacent(b, orig, id), orig, Append(path, id))

\* dfs of generate_walk3
Walk3Dfs(b, id, orig, path) ==
    IF \E k \in 1..Len(path) : path[k] = id THEN <<>>
    ELSE IF Len(path) = 3 THEN <<Movement(orig, id)>>
    ELSE Walk3Each(b, slideable_adjacent(b, orig, id), orig, Append(path, id))

\* Board::generate_walk3
generate_walk3(b, orig) == Walk3Dfs(b, orig, orig, <<>>)

\* The queue of generate_walk_all after the pops that `continue`: without
\* the visited cells at its end.
PopVisited(queue, visited) ==
    SubSeq(queue, 1,
           Cardinality({k \in 1..Len(queue) :
                           \E j \in k..Len(queue) :
                               \A v \in 1..Len(visited) : visited[v] # queue[j]}))

RECURSIVE WalkAllLoop(_, _, _, _)
\* The while loop of generate_walk_all.  The queue is popped at its end,
\* and its last cell is not visited; `visited` lists the cells in the
\* order they are visited, the order the moves are written in.
WalkAllLoop(b, orig, queue, visited) ==
    IF queue = <<>> THEN visited
    ELSE WalkAllLoop(b, orig,
                     PopVisited(SubSeq(queue, 1, Len(queue) - 1)
                                    \o slideable_adjacent(b, orig, queue[Len(queue)]),
                                Append(visited, queue[Len(queue)])),
                     Append(visited, queue[Len(queue)]))

\* Mutant: a move to the origin too.
generate_walk_all_ToOrigin(b, orig) ==
    MovementsTo(orig, WalkAllLoop(b, orig, <<orig>>, <<>>))

\* Board::generate_walk_all: a move to every visited cell but the origin,
\* which is visited first.
generate_walk_all(b, orig) == MovementsTo(orig, Tail(WalkAllLoop(b, orig, <<orig>>, <<>>)))

\* Mutant: the queen climbs as the beetle does.
BugMovements_QueenClimbs(b, id, bug) ==
    CASE bug = Queen -> generate_walk1(b, id) \o generate_walk_up(b, id)
      [] bug = Grasshopper -> generate_jumps(b, id)
      [] bug = Spider -> generate_walk3(b, id)
      [] bug = Ant -> generate_walk_all(b, id)
      [] bug = Beetle -> generate_walk1(b, id) \o generate_walk_up(b, id)

\* The match on the bug in generate_movements, for a tile at ground level.
BugMovements(b, id, bug) ==
    CASE bug = Queen -> generate_walk1(b, id)
      [] bug = Grasshopper -> generate_jumps(b, id)
      [] bug = Spider -> generate_walk3(b, id)
      [] bug = Ant -> generate_walk_all(b, id)
      [] bug = Beetle -> generate_walk1(b, id) \o generate_walk_up(b, id)

\* Mutant: the immovable set is not consulted.
MovementsAt_IgnoreCut(b, immovable, id) ==
    LET tile == get(b, id)
    IN  IF tile = <<>> THEN <<>>
        ELSE IF tile[1].color # to_move(b) THEN <<>>
        ELSE IF Tail(tile) # <<>> THEN generate_stack_walking(b, id)
        ELSE BugMovements(b, id, tile[1].bug)

\* Mutant: the immovable set is consulted before the stack.
MovementsAt_CutFirst(b, immovable, id) ==
    LET tile == get(b, id)
    IN  IF tile = <<>> THEN <<>>
        ELSE IF tile[1].color # to_move(b) THEN <<>>
        ELSE IF id \in immovable THEN <<>>
        ELSE IF Tail(tile) # <<>> THEN generate_stack_walking(b, id)
        ELSE BugMovements(b, id, tile[1].bug)

\* The body of the loop of generate_movements for the cell id.
MovementsAt(b, immovable, id) ==
    LET tile == get(b, id)
    IN  IF tile = <<>> THEN <<>>
        ELSE IF tile[1].color # to_move(b) THEN <<>>
        ELSE IF Tail(tile) # <<>> THEN generate_stack_walking(b, id)
        ELSE IF id \in immovable THEN <<>>
        ELSE BugMovements(b, id, tile[1].bug)

\* The loop of generate_movements.
MovementsLoop(b, immovable) ==
    Flatten([id \in 1..(Len(b.nodes) - 1) |-> MovementsAt(b, immovable, id)])

\* Board::generate_movements
generate_movements(b) == MovementsLoop(b, find_cut_vertexes(b))

\* Mutant: movements are generated only once the queen of the side to
\* move is out of reserve.
FoundMoves_QueenFirst(b) ==
    LET avail == get_available_bugs(b)
    IN  IF b.move_num < 2
        THEN [k \in 1..5 |-> Place(b.move_num + 1, avail[k][1])]
        ELSE generate_placements(b)
             \o (IF get_remaining(b)[Queen] = 0 THEN generate_movements(b) ELSE <<>>)

\* The moves of generate_moves before the Pass rule.
FoundMoves(b) ==
    LET avail == get_available_bugs(b)
    IN  IF b.move_num < 2
        THEN [k \in 1..5 |-> Place(b.move_num + 1, avail[k][1])]
        ELSE generate_placements(b)
             \o (IF ~queen_required(b) THEN generate_movements(b) ELSE <<>>)

\* The Pass rule of generate_moves: n = 0 after the generators.
PassIfNone(found) == IF found = <<>> THEN <<Pass>> ELSE found

\* Mutant: movements are generated although the queen is required.
generate_moves_MoveAnyway(b) ==
    PassIfNone(IF b.move_num < 2
               THEN [k \in 1..5 |-> Place(b.move_num + 1, get_available_bugs(b)[k][1])]
               ELSE generate_placements(b) \o generate_movements(b))

\* Mutant: an empty move list is returned as it is.
generate_moves_NoPass(b) == FoundMoves(b)

\* Mutant: the first two half-moves are generated like any other.
generate_moves_NoOpening(b) ==
    PassIfNone(generate_placements(b)
               \o (IF ~queen_required(b) /\ b.move_num >= 2
                   THEN generate_movements(b) ELSE <<>>))

\* Game::generate_moves: the moves written before the None terminator.
generate_moves(b) == PassIfNone(FoundMoves(b))

(***************************************************************************)
(* impl minimax::Game for Game: get_winner.  minimax::Winner is Draw or     *)
(* Competitor(Player), Player is Computer or Opponent; no winner is None.  *)
(***************************************************************************)
Draw == <<"Draw">>
Computer == "Computer"
Opponent == "Opponent"
Competitor(player) == <<"Competitor", player>>
None == <<"None">>

\* Board::queens_surrounded
queens_surrounded(b) ==
    [i \in Color |->
        Cardinality({k \in 1..6 : get(b, adj_of(b, b.queens[i])[k]) # <<>>})]

\* Mutant: the hash is compared with the entry one half-move later.
WinnerOf_OffByOne(b, surrounded, n) ==
    IF n > 5 /\ b.zobrist_history[(n - 4) + 1] = b.zobrist_hash THEN Draw
    ELSE IF surrounded[0] = 6 /\ surrounded[1] = 6 THEN Draw
    ELSE IF surrounded[b.move_num % 2] = 6 THEN Competitor(Computer)
    ELSE IF surrounded[(b.move_num + 1) % 2] = 6 THEN Competitor(Opponent)
    ELSE None

\* Mutant: the two sides are taken for each other.
WinnerOf_Swapped(b, surrounded, n) ==
    IF n > 5 /\ b.zobrist_history[(n - 5) + 1] = b.zobrist_hash THEN Draw
    ELSE IF surrounded[0] = 6 /\ surrounded[1] = 6 THEN Draw
    ELSE IF surrounded[(b.move_num + 1) % 2] = 6 THEN Competitor(Computer)
    ELSE IF surrounded[b.move_num % 2] = 6 THEN Competitor(Opponent)
    ELSE None

\* The chain of tests of get_winner, n being zobrist_history.len().
WinnerOf(b, surrounded, n) ==
    IF n > 5 /\ b.zobrist_history[(n - 5) + 1] = b.zobrist_hash THEN Draw
    ELSE IF surrounded[0] = 6 /\ surrounded[1] = 6 THEN Draw
    ELSE IF surrounded[b.move_num % 2] = 6 THEN Competitor(Computer)
    ELSE IF surrounded[(b.move_num + 1) % 2] = 6 THEN Competitor(Opponent)
    ELSE None

\* Game::get_winner
get_winner(b) == WinnerOf(b, queens_surrounded(b), Len(b.zobrist_history))

(***************************************************************************)
(* impl minimax::Evaluator for BasicEvaluator (eval.rs).  The bugs are the *)
(* five of board.rs.                                                       *)
(***************************************************************************)
QUEEN_FACTOR == 20
MOVABLE_BUG_FACTOR == 1

\* value of BasicEvaluator::evaluate
value(bug) ==
    CASE bug = Queen -> 10
      [] bug = Ant -> 7
      [] bug = Beetle -> 6
      [] bug = Grasshopper -> 4
      [] bug = Spider -> 3

RECURSIVE SumSeq(_)
\* The sum of a sequence of integers.
SumSeq(s) ==
    IF s = <<>> THEN 0
    ELSE IF Len(s) = 1 THEN s[1]
    ELSE SumSeq(SubSeq(s, 1, Len(s) \div 2)) + SumSeq(SubSeq(s, (Len(s) \div 2) + 1, Len(s)))

\* The first value of score: the neighbours of the other side's queen less
\* the neighbours of the queen of the side to move, times QUEEN_FACTOR.
QueenScore(b, surrounded) ==
    (surrounded[1 - to_move(b)] - surrounded[to_move(b)]) * QUEEN_FACTOR

\* Mutant: the tile counts for Black and against White, whoever is to
\* move.
BugScore_ForBlack(b, immovable, id) ==
    LET tile == get(b, id)
    IN  IF tile = <<>> THEN 0
        ELSE IF Tail(tile) = <<>> /\ id \in immovable THEN 0
        ELSE IF tile[1].color # Black
             THEN 0 - (value(tile[1].bug) * MOVABLE_BUG_FACTOR)
             ELSE value(tile[1].bug) * MOVABLE_BUG_FACTOR

\* The body of the loop of evaluate for the cell id: what it adds to score.
BugScore(b, immovable, id) ==
    LET tile == get(b, id)
    IN  IF tile = <<>> THEN 0
        ELSE IF Tail(tile) = <<>> /\ id \in immovable THEN 0
        ELSE IF tile[1].color # to_move(b)
             THEN 0 - (value(tile[1].bug) * MOVABLE_BUG_FACTOR)
             ELSE value(tile[1].bug) * MOVABLE_BUG_FACTOR

\* evaluate with the two values it computes first.
EvaluateWith(b, surrounded, immovable) ==
    QueenScore(b, surrounded)
        + SumSeq([k \in 1..Len(b.nodes) |-> BugScore(b, immovable, k - 1)])

\* BasicEvaluator::evaluate: the score.
evaluate(b) == EvaluateWith(b, queens_surrounded(b), find_cut_vertexes(b))

(***************************************************************************)
(* The callers.  The search layer holds one board, applies a generated     *)
(* move and undoes the last applied move (Spec).  A game is played move by *)
(* move, every move taken from generate_moves (SpecGame); it follows one   *)
(* of the lines of Book for the first half-moves and is free after it.     *)
(***************************************************************************)
VARIABLES board, applied, undone, players, p_index, outcome, turn

\* The variables of face_off besides its board and the moves applied to it:
\* the two players, the index p of the player to move, what face_off has
\* returned, and the move the last call of generate_move returned.
faceVars == <<players, p_index, outcome, turn>>

vars == <<board, applied, undone, players, p_index, outcome, turn>>

\* The elements of a sequence.
Range(s) == {s[k] : k \in 1..Len(s)}

\* face_off has not returned.
Running == <<"Running">>

\* The value face_off returns.
Returned(name) == <<"Returned", name>>

\* NokamutePlayer after new_game, with the moves play_move has handed it.
NewPlayer == [board |-> Default, got |-> <<>>]

Init ==
    /\ board = Default
    /\ applied = <<>>
    /\ undone = 0
    /\ players = <<NewPlayer, NewPlayer>>
    /\ p_index = 0
    /\ outcome = Running
    /\ turn = <<>>

Apply ==
    /\ board.move_num < MaxMoveNum
    /\ \E m \in Range(generate_moves(board)) :
          /\ board' = apply(m, board)
          /\ applied' = Append(applied, m)
    /\ UNCHANGED <<undone, faceVars>>

Undo ==
    /\ applied # <<>>
    /\ undone < MaxUndo
    /\ board' = undo(applied[Len(applied)], board)
    /\ applied' = SubSeq(applied, 1, Len(applied) - 1)
    /\ undone' = undone + 1
    /\ UNCHANGED faceVars

Next == Apply \/ Undo

Spec == Init /\ [][Next]_vars

\* A move with its cells named by coordinate.
ByLoc(b, m) ==
    CASE m[1] = "Place" -> <<"Place", loc(b, m[2]), m[3]>>
      [] m[1] = "Movement" -> <<"Movement", loc(b, m[2]), loc(b, m[3])>>
      [] OTHER -> m

\* Lines of play, by coordinate.  The first: White's beetle climbs on
\* Black's only tile.  The second: five tiles in a row, no queen.
Book ==
    { << <<"Place", <<0, 0>>, Ant>>, <<"Place", <<1, 0>>, Beetle>>,
         <<"Movement", <<0, 0>>, <<0, -1>> >>, <<"Movement", <<1, 0>>, <<0, -1>> >>,
         <<"Pass">> >>,
      << <<"Place", <<0, 0>>, Ant>>, <<"Place", <<1, 0>>, Ant>>,
         <<"Place", <<-1, 0>>, Beetle>>, <<"Place", <<2, 0>>, Spider>>,
         <<"Place", <<-2, 0>>, Grasshopper>> >> }

\* The moves played agree with a line of Book as far as both go.
OnBook(b, played) ==
    \E line \in Book :
        \A k \in 1..Min(Len(played), Len(line)) : ByLoc(b, played[k]) = line[k]

Play ==
    /\ board.move_num < MaxGameNum
    /\ \E m \in Range(generate_moves(board)) :
          /\ OnBook(board, Append(applied, m))
          /\ board' = apply(m, board)
          /\ applied' = Append(applied, m)
    /\ UNCHANGED <<undone, faceVars>>

NextGame == Play

SpecGame == Init /\ [][NextGame]_vars

\* The order in which a side places its tiles in line 5 of EndBook.
RowOrder ==
    <<Queen, Ant, Ant, Ant, Grasshopper, Grasshopper, Grasshopper,
      Spider, Spider, Beetle, Beetle>>

\* Lines of play, by coordinate, that lead to the end of a game.  Both
\* queens open at (0,0) and (1,0) and are walled in by placements; then
\*   1: an ant of each side closes one of the two cells the queens share,
\*      the last half-move of the line leaves one cell open at both queens;
\*   2: the same with the cell (2,1) at White's queen left open;
\*   3: White's ant closes (0,-1), a Black ant is left to close (1,1) at
\*      its own queen;
\*   4: two queens at the ends of a row shuttle out and back;
\*   5: each side places its eleven tiles in a row away from the other;
\*   6: White's beetle climbs on the middle tile of a row, both queens are
\*      placed after it;
\*   7: the same with a White ant in place of White's queen.
EndBook ==
    { << <<"Place", <<0, 0>>, Queen>>, <<"Place", <<1, 0>>, Queen>>,
         <<"Place", <<-1, -1>>, Spider>>, <<"Place", <<1, -1>>, Spider>>,
         <<"Place", <<-1, 0>>, Spider>>, <<"Place", <<2, 0>>, Spider>>,
         <<"Place", <<0, 1>>, Grasshopper>>, <<"Place", <<2, 1>>, Grasshopper>>,
         <<"Place", <<-2, -1>>, Ant>>, <<"Place", <<3, 1>>, Ant>>,
         <<"Movement", <<-2, -1>>, <<0, -1>> >> >>,
      << <<"Place", <<0, 0>>, Queen>>, <<"Place", <<1, 0>>, Queen>>,
         <<"Place", <<-1, -1>>, Spider>>, <<"Place", <<1, -1>>, Spider>>,
         <<"Place", <<-1, 0>>, Spider>>, <<"Place", <<2, 0>>, Spider>>,
         <<"Place", <<0, 1>>, Grasshopper>>, <<"Place", <<2, -1>>, Grasshopper>>,
         <<"Place", <<-2, -1>>, Ant>>, <<"Place", <<3, 0>>, Ant>>,
         <<"Movement", <<-2, -1>>, <<0, -1>> >> >>,
      << <<"Place", <<0, 0>>, Queen>>, <<"Place", <<1, 0>>, Queen>>,
         <<"Place", <<-1, -1>>, Spider>>, <<"Place", <<1, -1>>, Spider>>,
         <<"Place", <<-1, 0>>, Spider>>, <<"Place", <<2, 0>>, Spider>>,
         <<"Place", <<0, 1>>, Grasshopper>>, <<"Place", <<2, -1>>, Grasshopper>>,
         <<"Place", <<-1, 1>>, Ant>>, <<"Place", <<3, 0>>, Ant>>,
         <<"Place", <<-2, -1>>, Ant>>, <<"Movement", <<3, 0>>, <<0, -1>> >> >>,
      << <<"Place", <<0, 0>>, Ant>>, <<"Place", <<1, 0>>, Ant>>,
         <<"Place", <<-1, 0>>, Queen>>, <<"Place", <<2, 0>>, Queen>>,
         <<"Movement", <<-1, 0>>, <<-1, -1>> >>, <<"Movement", <<2, 0>>, <<2, 1>> >>,
         <<"Movement", <<-1, -1>>, <<-1, 0>> >> >>,
      [k \in 1..(2 * Len(RowOrder)) |->
          <<"Place", <<IF k % 2 = 1 THEN -((k - 1) \div 2) ELSE k \div 2, 0>>,
            RowOrder[(k + 1) \div 2]>>],
      << <<"Place", <<0, 0>>, Ant>>, <<"Place", <<1, 0>>, Beetle>>,
         <<"Place", <<-1, 0>>, Spider>>, <<"Movement", <<1, 0>>, <<0, 0>> >>,
         <<"Place", <<-2, 0>>, Grasshopper>>, <<"Place", <<1, 0>>, Queen>>,
         <<"Place", <<-3, 0>>, Queen>> >>,
      << <<"Place", <<0, 0>>, Ant>>, <<"Place", <<1, 0>>, Beetle>>,
         <<"Place", <<-1, 0>>, Spider>>, <<"Movement", <<1, 0>>, <<0, 0>> >>,
         <<"Place", <<-2, 0>>, Grasshopper>>, <<"Place", <<1, 0>>, Ant>>,
         <<"Place", <<-3, 0>>, Queen>> >> }

\* The moves played follow a line of EndBook and go at most MaxEndFree
\* half-moves beyond it.
OnEndBook(b, played) ==
    \E line \in EndBook :
        /\ Len(played) <= Len(line) + MaxEndFree
        /\ \A k \in 1..Min(Len(played), Len(line)) : ByLoc(b, played[k]) = line[k]

\* A game is played until it has a winner.
PlayEnd ==
    /\ get_winner(board) = None
    /\ \E m \in Range(generate_moves(board)) :
          /\ OnEndBook(board, Append(applied, m))
          /\ board' = apply(m, board)
          /\ applied' = Append(applied, m)
    /\ UNCHANGED <<undone, faceVars>>

NextEnd == PlayEnd \/ Undo

SpecEnd == Init /\ [][NextEnd]_vars

\* A line of play that goes on after the game is won: the third line of
\* EndBook, then Black's ant closes the last cell at Black's own queen,
\* then a White grasshopper and a Black ant go out and back.
OverLine ==
    << <<"Place", <<0, 0>>, Queen>>, <<"Place", <<1, 0>>, Queen>>,
       <<"Place", <<-1, -1>>, Spider>>, <<"Place", <<1, -1>>, Spider>>,
       <<"Place", <<-1, 0>>, Spider>>, <<"Place", <<2, 0>>, Spider>>,
       <<"Place", <<0, 1>>, Grasshopper>>, <<"Place", <<2, -1>>, Grasshopper>>,
       <<"Place", <<-1, 1>>, Ant>>, <<"Place", <<3, 0>>, Ant>>,
       <<"Place", <<-2, -1>>, Ant>>, <<"Movement", <<3, 0>>, <<0, -1>> >>,
       <<"Movement", <<-1, 1>>, <<1, 1>> >>,
       <<"Movement", <<2, -1>>, <<2, 1>> >>, <<"Movement", <<-2, -1>>, <<-2, 0>> >>,
       <<"Movement", <<2, 1>>, <<2, -1>> >>, <<"Movement", <<-2, 0>>, <<-2, -1>> >> >>

\* The moves played follow OverLine and go at most MaxOverFree half-moves
\* beyond it.
OnOverLine(b, played) ==
    /\ Len(played) <= Len(OverLine) + MaxOverFree
    /\ \A k \in 1..Min(Len(played), Len(OverLine)) : ByLoc(b, played[k]) = OverLine[k]

\* play_move: a generated move is applied, whether the game has a winner
\* or not.
PlayOver ==
    /\ \E m \in Range(generate_moves(board)) :
          /\ OnOverLine(board, Append(applied, m))
          /\ board' = apply(m, board)
          /\ applied' = Append(applied, m)
    /\ UNCHANGED <<undone, faceVars>>

NextOver == PlayOver \/ Undo

SpecOver == Init /\ [][NextOver]_vars

\* Board::insert_loc
insert_loc(b, l, bug, color) ==
    insert(alloc(b, l), alloc(b, l).loc_to_id[l], bug, color)

\* Board::remove_loc
remove_loc(b, l) ==
    remove(alloc(b, l), alloc(b, l).loc_to_id[l])

\* The cells test_slideable fills, in the order it fills them: the cell x,
\* then its six neighbours.
FillLocs == <<<<0, 0>>, <<1, 0>>, <<1, 1>>, <<0, 1>>, <<-1, 0>>, <<-1, -1>>, <<0, -1>>>>

\* The cell at the coordinate l holds a tile.
Filled(b, l) == l \in DOMAIN b.loc_to_id /\ get(b, b.loc_to_id[l]) # <<>>

\* test_slideable: a Black queen is set on the first empty cell of
\* FillLocs.
InsertLoc ==
    /\ \E k \in 1..Len(FillLocs) :
          /\ ~Filled(board, FillLocs[k])
          /\ \A j \in 1..(k - 1) : Filled(board, FillLocs[j])
          /\ board' = insert_loc(board, FillLocs[k], Queen, Black)
    /\ UNCHANGED <<applied, undone, faceVars>>

\* test_slideable: the tile of a cell of FillLocs is taken off.
RemoveLoc ==
    /\ \E k \in 1..Len(FillLocs) :
          /\ Filled(board, FillLocs[k])
          /\ board' = remove_loc(board, FillLocs[k])
    /\ UNCHANGED <<applied, undone, faceVars>>

NextFill == InsertLoc \/ RemoveLoc

SpecFill == Init /\ [][NextFill]_vars

\* The names of the two players, by index.
Name(i) == IF i = 0 THEN "player1" ELSE "player2"

\* NokamutePlayer::play_move, with the move noted.
play_move(player, m) ==
    [board |-> apply(m, player.board), got |-> Append(player.got, m)]

\* Mutant: the move is handed to the player who made it and not to the
\* other.
Forward_MoverOnly(pls, i, m) == [pls EXCEPT ![i + 1] = play_move(@, m)]

\* The two play_move calls at the end of the loop of face_off, i the index
\* of the player who moved.
Forward(pls, i, m) ==
    [pls EXCEPT ![i + 1] = play_move(@, m), ![(1 - i) + 1] = play_move(@, m)]

\* Mutant: the player who answered with an illegal move is named winner.
IllegalMove_MoverWins(i) == Returned(Name(i))

\* What face_off returns when the player i answers with an illegal move.
IllegalMove(i) == Returned(Name(1 - i))

\* What face_off returns for a winner, i the index of the player who
\* moved: nothing for a draw, the mover when the player who just moved
\* wins, the other player otherwise.
GameOver(winner, i) ==
    IF winner = Draw THEN Returned("None")
    ELSE IF winner = Competitor(Computer) THEN Returned(Name(i))
    ELSE Returned(Name(1 - i))

\* Moves a player may answer with besides the generated ones.
FaceTries == {Pass, Place(1, Queen), Movement(1, 2)}

\* The moves generate_move of a player may return: the generated moves
\* that keep to EndBook, and the moves of FaceTries.
Answers(b, played) ==
    {m \in Range(generate_moves(b)) : OnEndBook(b, Append(played, m))} \cup FaceTries

\* One turn of the loop of face_off with the answer m, legal or not.
FaceStep(m, legal) ==
    /\ turn' = m
    /\ IF ~legal
       THEN /\ outcome' = IllegalMove(p_index)
            /\ UNCHANGED <<board, applied, players, p_index>>
       ELSE /\ board' = apply(m, board)
            /\ applied' = Append(applied, m)
            /\ IF get_winner(apply(m, board)) # None
               THEN /\ outcome' = GameOver(get_winner(apply(m, board)), p_index)
                    /\ UNCHANGED <<players, p_index>>
               ELSE /\ players' = Forward(players, p_index, m)
                    /\ p_index' = 1 - p_index
                    /\ UNCHANGED outcome

\* face_off: one turn of its loop.
FaceTurn ==
    /\ outcome = Running
    /\ \E m \in Answers(board, applied) : FaceStep(m, m \in Range(generate_moves(board)))
    /\ UNCHANGED undone

NextFace == FaceTurn

SpecFace == Init /\ [][NextFace]_vars

(***************************************************************************)
(* Notions the properties are stated with.                                 *)
(***************************************************************************)
\* The ids of the arena.
Ids(b) == 0..(Len(b.nodes) - 1)

\* The tiles on the board: <<id, k>> is the k-th tile from the top of the
\* cell id; its height is the number of tiles below it.
TilesOn(b) == {<<id, k>> \in Ids(b) \X (1..7) : k <= Len(get(b, id))}

HeightOf(b, t) == Len(get(b, t[1])) - t[2]

RECURSIVE XorOver(_, _)
\* The XOR of the Zobrist words of the tiles ts of the board.
XorOver(b, ts) ==
    IF ts = {} THEN {}
    ELSE LET t == CHOOSE x \in ts : TRUE
             tile == get(b, t[1])[t[2]]
         IN  Xor(zobrist(t[1], tile.bug, tile.color, HeightOf(b, t)),
                 XorOver(b, ts \ {t}))

\* The number of tiles (bug, color) on the board, at any height.
Placed(b, bug, color) ==
    Cardinality({t \in TilesOn(b) : get(b, t[1])[t[2]] = Tile(bug, color)})

\* The coordinates of the occupied cells.
OccupiedLocs(b) == {loc(b, id) : id \in {i \in Ids(b) : get(b, i) # <<>>}}

RECURSIVE Reach(_, _)
\* The cells of locs joined to a cell of seen by a chain of hex neighbours.
Reach(seen, locs) ==
    IF \E l \in locs \ seen : \E s \in seen : l \in Range(adjacent(s))
    THEN Reach(seen \cup {l \in locs : \E s \in seen : l \in Range(adjacent(s))}, locs)
    ELSE seen

Connected(locs) ==
    locs = {} \/ Reach({CHOOSE l \in locs : TRUE}, locs) = locs

\* The queen of the colour is on the board.
QueenOnBoard(b, color) == Placed(b, Queen, color) > 0

\* Every field of b0 but the arena is found again in b1.
Restored(b0, b1) ==
    /\ \A id \in Ids(b0) : get(b1, id) = get(b0, id)
    /\ \A id \in Ids(b1) \ Ids(b0) : get(b1, id) = <<>>
    /\ b1.remaining = b0.remaining
    /\ b1.queens = b0.queens
    /\ b1.move_num = b0.move_num
    /\ b1.zobrist_hash = b0.zobrist_hash
    /\ b1.zobrist_history = b0.zobrist_history

\* The moves generated for the current position.
Moves == generate_moves(board)

IsPlace(m) == m[1] = "Place"
IsMovement(m) == m[1] = "Movement"

\* Every move of the list is a Place of the Queen.
OnlyQueenPlaces(moves) == \A m \in Range(moves) : IsPlace(m) /\ m[3] = Queen

\* The list is one Pass.
OnlyPass(moves) == moves = <<Pass>>

\* The list has no element twice.
NoRepeat(moves) == Len(moves) = Cardinality(Range(moves))

(***************************************************************************)
(* Properties.                                                             *)
(***************************************************************************)
\* C1: for every generated move m, apply(m) followed by undo(m) restores
\* the tile stacks, the reserves, both queen cells, move_num, the hash and
\* the hash history.  (Fails: undo of a queen placement leaves the queen
\* cell set.)
C1_ApplyUndoRestores ==
    \A m \in Range(Moves) : Restored(board, undo(m, apply(m, board)))

\* C2: the stored hash is the XOR of zobrist(id, bug, color, height) over
\* every tile on the board, buried tiles included, each at its own height.
C2_HashIsXorOfTiles ==
    board.zobrist_hash = XorOver(board, TilesOn(board))

\* C2 witness: a tile is buried under another after an undo has been made.
C2_Witness ==
    /\ undone > 0
    /\ \E id \in Ids(board) : Len(get(board, id)) >= 2

\* C3: the occupied cells are connected under hex adjacency.
C3_OneHive == Connected(OccupiedLocs(board))

\* C3 witness: a movement has just been made on a hive of five cells.
C3_Witness ==
    /\ applied # <<>>
    /\ IsMovement(applied[Len(applied)])
    /\ Cardinality(OccupiedLocs(board)) >= 5

\* C4: the queen cell of a colour is 0 or the id of a cell whose tile at
\* height 0 is the Queen of that colour.  (Fails after the undo of a queen
\* placement.)
C4_QueenCell ==
    \A c \in Color :
        \/ board.queens[c] = UNASSIGNED
        \/ LET stack == get(board, board.queens[c])
           IN  stack # <<>> /\ stack[Len(stack)] = Tile(Queen, c)

\* C5: reserve plus tiles on the board is the starting reserve, for each
\* colour and bug; no reserve is negative, no Place is generated for an
\* empty reserve, and applying a Movement or Pass leaves the reserves as
\* they are.
C5_ReserveConservation ==
    /\ \A c \in Color, g \in Bug :
          /\ board.remaining[c][g] >= 0
          /\ board.remaining[c][g] + Placed(board, g, c) = START_REMAINING[c][g + 1]
    /\ \A m \in Range(Moves) :
          IF IsPlace(m)
          THEN apply(m, board).remaining[to_move(board)][m[3]] >= 0
          ELSE apply(m, board).remaining = board.remaining

\* C5 witness: after an undo, tiles are on the board and a Movement is
\* among the generated moves.
C5_Witness ==
    /\ undone > 0
    /\ TilesOn(board) # {}
    /\ \E m \in Range(Moves) : IsMovement(m)

\* C6 as claimed: when the queen is required, every generated move is a
\* Place of the Queen (no Pass).  (Fails: with no cell to place on, the
\* list is one Pass.)
C6_OnlyQueenPlacements ==
    (board.move_num > 5 /\ get_remaining(board)[Queen] > 0)
        => OnlyQueenPlaces(Moves)

\* Every move is a Place of the Queen, or nothing can be placed and the
\* list is one Pass.
QueenPlacesOrPass(b, moves) ==
    \/ OnlyQueenPlaces(moves)
    \/ generate_placements(b) = <<>> /\ OnlyPass(moves)

\* C6 amended: when the queen is required, either every generated move is
\* a Place of the Queen, or no placement is generated and the list is
\* exactly one Pass; no Movement and no other bug in either case.
C6_QueenPlacementsOrPass ==
    (board.move_num > 5 /\ get_remaining(board)[Queen] > 0)
        => QueenPlacesOrPass(board, Moves)

SeveralQueenPlaces(moves) == Len(moves) >= 2 /\ OnlyQueenPlaces(moves)

\* C6 witness: the queen is required, the side to move has a tile it could
\* otherwise move, and several queen placements are generated.
C6_Witness ==
    /\ board.move_num > 5 /\ get_remaining(board)[Queen] > 0
    /\ generate_movements(board) # <<>>
    /\ SeveralQueenPlaces(Moves)

\* C7 as claimed: Black's Queen is on the board once move_num >= 7 and
\* White's once move_num >= 8.  (Fails: a side with no cell to place on
\* passes.)
C7_QueenByFourthTurn ==
    /\ board.move_num >= 7 => QueenOnBoard(board, Black)
    /\ board.move_num >= 8 => QueenOnBoard(board, White)

\* The half-moves of the colour from its fourth on, as indexes of the game
\* record (half-move n is element n + 1).
TurnsFromFourth(c) == {k \in (7 + c)..Len(applied) : (k - 1) % 2 = c}

\* C7 amended: once move_num >= 7 (Black) or >= 8 (White), the colour's
\* Queen is on the board, or every half-move of that colour from its
\* fourth on was a Pass.
C7_QueenByFourthTurnOrPass ==
    \A c \in Color :
        board.move_num >= 7 + c
            => \/ QueenOnBoard(board, c)
               \/ \A k \in TurnsFromFourth(c) : applied[k] = Pass

\* C7 witness: both queens were placed on the fourth turn.
C7_Witness ==
    /\ board.move_num >= 8
    /\ applied[7] \in {Place(id, Queen) : id \in Ids(board)}
    /\ applied[8] \in {Place(id, Queen) : id \in Ids(board)}
    /\ QueenOnBoard(board, Black) /\ QueenOnBoard(board, White)

\* C8: no Place(id, b) is generated for a bug b whose reserve for the side
\* to move is 0.
C8_NoPlaceFromEmptyReserve ==
    \A m \in Range(Moves) : IsPlace(m) => get_remaining(board)[m[3]] > 0

\* C8 witness: the side to move has placed its Queen and placements are
\* generated for it.
C8_Witness ==
    /\ board.move_num >= 2
    /\ get_remaining(board)[Queen] = 0
    /\ \E m \in Range(Moves) : IsPlace(m)

\* The side to move has nothing to place and nothing to move: past the
\* opening, no placement is generated and, unless the queen is required and
\* no tile may move, no movement either.
NothingLegal(b) ==
    /\ b.move_num >= 2
    /\ generate_placements(b) = <<>>
    /\ queen_required(b) \/ generate_movements(b) = <<>>

\* The list is not empty, has a Pass exactly when nothing is legal, and is
\* then one Pass.
PassRule(b, moves) ==
    /\ Len(moves) >= 1
    /\ (Pass \in Range(moves)) <=> NothingLegal(b)
    /\ (Pass \in Range(moves)) => OnlyPass(moves)

\* C9: at least one move is generated; Pass is generated exactly when there
\* is no placement and no movement to make, and then the list is one Pass.
C9_PassIffNothingElse == PassRule(board, Moves)

\* C9 witness: the side to move has nothing to place or move and passes.
C9_Witness ==
    /\ board.move_num >= 2
    /\ Moves = <<Pass>>

\* The list is one Place at the cell id per bug left in the reserve of the
\* side to move, and nothing else.
OnePlacePerBug(b, id, moves) ==
    /\ NoRepeat(moves)
    /\ Range(moves) = {Place(id, g) : g \in {x \in Bug : get_remaining(b)[x] > 0}}

OnePlaceEach(id, bugs, moves) ==
    /\ NoRepeat(moves)
    /\ Range(moves) = {Place(id, g) : g \in bugs}

\* C11: on the board of a new game the moves are exactly four placements,
\* one each of Ant, Beetle, Grasshopper and Spider; the Queen is not among
\* them.  (Fails: the opening branch offers all five bugs.)
C11_FirstMovesWithoutQueen ==
    (board.move_num = 0 /\ TilesOn(board) = {})
        => OnePlaceEach(1, {Ant, Beetle, Grasshopper, Spider}, Moves)

\* The stack at a coordinate, empty where the arena has no cell.
StackAt(b, l) == IF l \in DOMAIN b.loc_to_id THEN get(b, b.loc_to_id[l]) ELSE <<>>

\* A hex neighbour of the coordinate l has a top tile of the colour.
TopNear(b, l, color) ==
    \E a \in Range(adjacent(l)) : StackAt(b, a) # <<>> /\ StackAt(b, a)[1].color = color

\* The coordinates next to an occupied cell.
NearHive(b) == UNION {Range(adjacent(l)) : l \in OccupiedLocs(b)}

\* The empty coordinates with a neighbour topped by the side to move and
\* none topped by the other side.
PlaceableLocs(b) ==
    {l \in NearHive(b) : /\ StackAt(b, l) = <<>>
                         /\ TopNear(b, l, to_move(b))
                         /\ ~TopNear(b, l, 1 - to_move(b))}

\* The coordinates of the cells the Place moves of the list go to.
PlaceLocs(b, moves) == {loc(b, m[2]) : m \in {x \in Range(moves) : IsPlace(x)}}

\* The Place moves go to exactly the placeable coordinates, each of which
\* has a cell in the arena; none goes to an occupied cell.
PlacesWherePlaceable(b, moves) ==
    /\ PlaceLocs(b, moves) = PlaceableLocs(b)
    /\ PlaceableLocs(b) \subseteq DOMAIN b.loc_to_id
    /\ \A m \in Range(moves) : IsPlace(m) => get(b, m[2]) = <<>>

\* C12 as claimed: for move_num >= 2 the cells that receive Place moves are
\* exactly the empty cells with a neighbour topped by the side to move and
\* none topped by the other side.  (Fails: a side whose reserve is empty
\* places nothing.)
C12_PlacesExactlyWherePlaceable ==
    board.move_num >= 2 => PlacesWherePlaceable(board, Moves)

\* No Place goes to an occupied cell or to a cell that is not placeable.
PlacesOnlyWherePlaceable(b, moves) ==
    /\ PlaceLocs(b, moves) \subseteq PlaceableLocs(b)
    /\ \A m \in Range(moves) : IsPlace(m) => get(b, m[2]) = <<>>

\* C12 amended: for move_num >= 2, when the side to move has a tile in
\* reserve the cells that receive Place moves are exactly the placeable
\* cells, all of them cells of the arena; with an empty reserve no Place is
\* generated; a Place never goes to an occupied cell.
C12_PlacesWherePlaceableWithReserve ==
    board.move_num >= 2
        => IF \E g \in Bug : get_remaining(board)[g] > 0
           THEN PlacesWherePlaceable(board, Moves)
           ELSE PlaceLocs(board, Moves) = {}

\* C12 witness: placements are generated while an empty cell by the hive
\* has neighbours of both colours.
C12_Witness ==
    /\ board.move_num >= 2
    /\ PlaceLocs(board, Moves) # {}
    /\ \E l \in NearHive(board) :
          /\ StackAt(board, l) = <<>>
          /\ TopNear(board, l, Black) /\ TopNear(board, l, White)

\* The occupied cell at the coordinate l is an articulation point: the
\* other occupied cells are not connected without it.
Articulation(b, l) == ~Connected(OccupiedLocs(b) \ {l})

\* The cells a Movement of the list starts from.
Origins(moves) == {m[2] : m \in {x \in Range(moves) : IsMovement(x)}}

\* The cells that hold one tile, of the side to move, on an articulation
\* point.
PinnedCells(b) ==
    {id \in Ids(b) : /\ Len(get(b, id)) = 1
                     /\ get(b, id)[1].color = to_move(b)
                     /\ Articulation(b, loc(b, id))}

\* C13: no Movement starts from a cell that holds a single tile and is an
\* articulation point of the occupied cells.
C13_NoMoveFromArticulation ==
    \A id \in Origins(Moves) :
        Len(get(board, id)) = 1 => ~Articulation(board, loc(board, id))

\* C13 witness: the side to move has a ground-level tile on an articulation
\* point and another tile that moves.
C13_Witness ==
    /\ PinnedCells(board) # {}
    /\ Origins(Moves) # {}

\* The outcomes by the side they favour.  The winner of test_minimax is the
\* Computer, which has just moved; the Opponent is then the side to move.
JustMovedWins == Competitor(Computer)
ToMoveWins == Competitor(Opponent)

\* The coordinates where the Queen of the colour lies, under whatever
\* covers it.
QueenLocs(b, color) ==
    {l \in OccupiedLocs(b) : \E k \in 1..Len(StackAt(b, l)) :
                                 StackAt(b, l)[k] = Tile(Queen, color)}

\* The Queen of the colour is on the board and its six neighbouring
\* coordinates are occupied.
Surrounded(b, color) ==
    \E l \in QueenLocs(b, color) : \A a \in Range(adjacent(l)) : StackAt(b, a) # <<>>

SelfSurrounded ==
    /\ applied # <<>>
    /\ Surrounded(board, 1 - to_move(board))
    /\ ~Surrounded(board, to_move(board))
    /\ get_winner(board) = ToMoveWins

\* With both queens surrounded the outcome is Draw.
BothSurroundedDraw(b) ==
    (Surrounded(b, Black) /\ Surrounded(b, White)) => get_winner(b) = Draw

\* A queen that is not on the board counts no occupied neighbour.
AbsentQueenCountsZero(b) ==
    \A c \in Color : QueenLocs(b, c) = {} => queens_surrounded(b)[c] = 0

\* C15: with both queens surrounded the outcome is Draw, whoever is to
\* move; a queen that is not on the board counts 0 occupied neighbours.
\* (Fails: after the undo of a queen placement the neighbours of the cell
\* the queen was taken from are counted.)
C15_BothSurroundedOrAbsent ==
    /\ BothSurroundedDraw(board)
    /\ AbsentQueenCountsZero(board)

\* Both queens are surrounded.
BothSurroundedReached == Surrounded(board, Black) /\ Surrounded(board, White)

\* The current hash is the entry hash_history[n - 5] of the history, n its
\* length; entry k of the history is element k + 1.
RepeatsFourBack(b) ==
    /\ Len(b.zobrist_history) >= 5
    /\ b.zobrist_history[(Len(b.zobrist_history) - 5) + 1] = b.zobrist_hash

NoQueenSurrounded(b) == ~Surrounded(b, Black) /\ ~Surrounded(b, White)

\* The last four moves took one tile of each side out and back.
ShuttledBack(played) ==
    /\ Len(played) >= 4
    /\ \A k \in (Len(played) - 3)..Len(played) : IsMovement(played[k])
    /\ played[Len(played) - 1] =
           Movement(played[Len(played) - 3][3], played[Len(played) - 3][2])
    /\ played[Len(played)] =
           Movement(played[Len(played) - 2][3], played[Len(played) - 2][2])

\* C16: with no queen surrounded the outcome is Draw exactly when the hash
\* equals hash_history[n - 5], and None otherwise; undoing the last move of
\* a position drawn by repetition gives a position whose outcome is None.
C16_RepetitionDraw ==
    NoQueenSurrounded(board)
        => /\ get_winner(board) = (IF RepeatsFourBack(board) THEN Draw ELSE None)
           /\ (RepeatsFourBack(board) /\ applied # <<>>)
                 => get_winner(undo(applied[Len(applied)], board)) = None

\* C16 witness: two tiles have shuttled out and back and the game is drawn
\* on this first repeat.
C16_Witness ==
    /\ ShuttledBack(applied)
    /\ NoQueenSurrounded(board)
    /\ RepeatsFourBack(board)
    /\ get_winner(board) = Draw

\* b1 is b after one apply and b0 is b1 after the undo of it: move_num
\* went up by one and one hash, the hash of b1, was pushed; then move_num
\* went down by one and one hash was popped.
OnePushOnePop(b, b1, b0) ==
    /\ b1.move_num = b.move_num + 1
    /\ b1.zobrist_history = Append(b.zobrist_history, b1.zobrist_hash)
    /\ b0.move_num = b.move_num
    /\ b0.zobrist_history = b.zobrist_history

\* The round trip of one move from the board b.
RoundTrip(b, m, b1) == OnePushOnePop(b, b1, undo(m, b1))

\* C17: the hash history is as long as move_num and, when not empty, ends
\* with the current hash; every apply adds one to move_num and pushes one
\* hash, every undo takes one from move_num and pops one hash.
C17_HistoryLength ==
    /\ Len(board.zobrist_history) = board.move_num
    /\ board.move_num > 0
          => board.zobrist_history[Len(board.zobrist_history)] = board.zobrist_hash
    /\ \A m \in Range(Moves) : RoundTrip(board, m, apply(m, board))

\* C17 witness: moves were applied after an undo, and a Movement and a
\* Place are among the moves to apply next.
C17_Witness ==
    /\ undone > 0
    /\ board.move_num >= 2
    /\ \E m \in Range(Moves) : IsMovement(m)
    /\ \E m \in Range(Moves) : IsPlace(m)

\* The two coordinates next to both l and c, for neighbours l and c.
CommonNear(l, c) == Range(adjacent(l)) \cap Range(adjacent(c))

\* The occupied coordinates among those next to both l and c.
Walls(b, l, c) == {x \in CommonNear(l, c) : StackAt(b, x) # <<>>}

\* The coordinates the tile at l slides to in one step, l counted as
\* vacated: the empty neighbours of l with one of the two coordinates next
\* to both occupied (a wall to follow) and the other empty (a gap to pass).
SlideLocs(b, l) ==
    {c \in Range(adjacent(l)) : StackAt(b, c) = <<>> /\ Cardinality(Walls(b, l, c)) = 1}

\* The coordinates of the ends of the Movements of the list from the cell.
TargetLocs(b, moves, id) ==
    {loc(b, m[3]) : m \in {x \in Range(moves) : IsMovement(x) /\ x[2] = id}}

\* The Movements of the list from the cell, as many as there are.
MovementsFrom(moves, id) == SelectSeq(moves, LAMBDA x : IsMovement(x) /\ x[2] = id)

\* The cells that hold one tile, this bug of the side to move, not on an
\* articulation point.
FreeCells(b, bug) ==
    {id \in Ids(b) : /\ get(b, id) = <<Tile(bug, to_move(b))>>
                     /\ ~Articulation(b, loc(b, id))}

\* The Movements of the list from each free Queen end on its slide cells.
QueenSlides(b, moves) ==
    \A id \in FreeCells(b, Queen) : TargetLocs(b, moves, id) = SlideLocs(b, loc(b, id))

\* C18: the Movement targets of a ground-level Queen that is not a cut
\* vertex are exactly its slideable neighbours: the empty adjacent cells
\* reached by a slide, the Queen's own cell counted as vacated.
C18_QueenTargets == QueenSlides(board, Moves)

\* An empty neighbour of l the tile cannot slide to: both cells beside the
\* way are occupied.
GateAt(b, l) ==
    \E c \in Range(adjacent(l)) : StackAt(b, c) = <<>> /\ Cardinality(Walls(b, l, c)) = 2

\* C18 witness: a free Queen of the side to move has cells to slide to and
\* empty neighbours it does not slide to.
C18_Witness ==
    \E id \in FreeCells(board, Queen) :
        /\ TargetLocs(board, Moves, id) # {}
        /\ \E c \in Range(adjacent(loc(board, id))) :
               StackAt(board, c) = <<>> /\ c \notin TargetLocs(board, Moves, id)

\* A free Queen of the side to move has an empty neighbour closed by a gate.
GatedQueen == \E id \in FreeCells(board, Queen) : GateAt(board, loc(board, id))

\* The occupied coordinates next to l.
ClimbLocs(b, l) == {c \in Range(adjacent(l)) : StackAt(b, c) # <<>>}

\* The Movements of the list from each free Beetle end on its slide cells
\* and on its occupied neighbours, once on each.
BeetleSteps(b, moves) ==
    \A id \in FreeCells(b, Beetle) :
        /\ TargetLocs(b, moves, id) = SlideLocs(b, loc(b, id)) \cup ClimbLocs(b, loc(b, id))
        /\ SlideLocs(b, loc(b, id)) \cap ClimbLocs(b, loc(b, id)) = {}
        /\ Len(MovementsFrom(moves, id)) = Cardinality(TargetLocs(b, moves, id))
        /\ NoRepeat(MovementsFrom(moves, id))

\* C19: the targets generate_movements emits for a ground-level Beetle
\* that is not a cut vertex are exactly its slideable empty neighbours
\* together with its occupied neighbours; the two parts are disjoint and
\* no target is emitted twice.
C19_BeetleTargets == BeetleSteps(board, generate_movements(board))

\* C19 witness: a free Beetle of the side to move has both a cell to slide
\* to and a neighbour to climb on among its targets, and an empty
\* neighbour it does not reach.
C19_Witness ==
    \E id \in FreeCells(board, Beetle) :
        /\ TargetLocs(board, Moves, id) \cap SlideLocs(board, loc(board, id)) # {}
        /\ TargetLocs(board, Moves, id) \cap ClimbLocs(board, loc(board, id)) # {}
        /\ \E c \in Range(adjacent(loc(board, id))) : c \notin TargetLocs(board, Moves, id)

\* The cells whose top tile is of the side to move and lies on another.
StackTops(b) ==
    {id \in Ids(b) : Len(get(b, id)) >= 2 /\ get(b, id)[1].color = to_move(b)}

\* The list has six Movements from each stack top of the side to move, one
\* to each neighbouring coordinate, each to an allocated cell.
SixSteps(b, moves) ==
    \A id \in StackTops(b) :
        /\ Len(MovementsFrom(moves, id)) = 6
        /\ TargetLocs(b, moves, id) = Range(adjacent(loc(b, id)))
        /\ \A m \in Range(MovementsFrom(moves, id)) : m[3] \in Ids(b) \ {0}

\* C20 as stated: for a tile of the side to move on top of a stack,
\* generate_moves emits exactly six Movements, one to each neighbouring
\* cell, occupied or empty, whatever the cut vertices; each target is an
\* allocated cell, never the sentinel 0.
C20_SixStepsFromStack == SixSteps(board, Moves)

\* C20 amended: the same, unless the side to move is required to place its
\* queen.
C20_SixStepsUnlessQueenRequired == ~queen_required(board) => SixSteps(board, Moves)

\* C20 witness: the queen is not required, and a stack top of the side to
\* move stands on a cut vertex with both occupied and empty neighbours.
C20_Witness ==
    /\ ~queen_required(board)
    /\ \E id \in StackTops(board) :
          /\ id \in find_cut_vertexes(board)
          /\ \E c \in Range(adjacent(loc(board, id))) : StackAt(board, c) # <<>>
          /\ \E c \in Range(adjacent(loc(board, id))) : StackAt(board, c) = <<>>

\* The coordinate k steps from l in the direction d (0..5).
LineCell(l, d, k) ==
    <<l[1] + k * adjacent(<<0, 0>>)[d + 1][1], l[2] + k * adjacent(<<0, 0>>)[d + 1][2]>>

\* The number of steps from l in the direction d to the first empty
\* coordinate.
FirstGap(b, l, d) ==
    CHOOSE k \in 1..(Cardinality(OccupiedLocs(b)) + 1) :
        /\ StackAt(b, LineCell(l, d, k)) = <<>>
        /\ \A j \in 1..(k - 1) : StackAt(b, LineCell(l, d, j)) # <<>>

\* The directions in which the neighbour of l is occupied.
HopDirs(b, l) == {d \in 0..5 : StackAt(b, LineCell(l, d, 1)) # <<>>}

\* The Movements of the list from each free Grasshopper: one for each
\* direction with an occupied neighbour, to the first empty coordinate on
\* the line.
GrasshopperJumps(b, moves) ==
    \A id \in FreeCells(b, Grasshopper) :
        /\ TargetLocs(b, moves, id) =
              {LineCell(loc(b, id), d, FirstGap(b, loc(b, id), d)) : d \in HopDirs(b, loc(b, id))}
        /\ Len(MovementsFrom(moves, id)) = Cardinality(HopDirs(b, loc(b, id)))
        /\ \A t \in TargetLocs(b, moves, id) : StackAt(b, t) = <<>>
        /\ TargetLocs(b, moves, id) \cap Range(adjacent(loc(b, id))) = {}

\* C21: a Grasshopper gets a target in a direction exactly when its
\* neighbour in that direction is occupied, and the target is the first
\* empty cell on the straight line in that direction: every target is
\* empty and at least one occupied cell, and no gap, lies between.
C21_GrasshopperTargets == GrasshopperJumps(board, generate_movements(board))

\* C21 witness: a free Grasshopper of the side to move jumps over two
\* tiles in one direction and has a direction with no tile to jump.
C21_Witness ==
    \E id \in FreeCells(board, Grasshopper) :
        /\ \E d \in HopDirs(board, loc(board, id)) :
              /\ FirstGap(board, loc(board, id), d) >= 3
              /\ LineCell(loc(board, id), d, FirstGap(board, loc(board, id), d))
                    \in TargetLocs(board, Moves, id)
        /\ HopDirs(board, loc(board, id)) # 0..5

\* The coordinates the tile that started at o slides to in one step from
\* p, the coordinate o counted as empty: the neighbours of p that are
\* empty, with one of the two coordinates next to both occupied and the
\* other empty.
SlideFrom(b, p, o) ==
    {c \in Range(adjacent(p)) :
        /\ StackAt(b, c) = <<>> \/ c = o
        /\ Cardinality(Walls(b, p, c) \ {o}) = 1}

\* The ends of the walks of three slides from s that pass no coordinate
\* twice.
Walk3Ends(b, s) ==
    UNION {UNION {SlideFrom(b, c2, s) \ {s, c1, c2} :
                     c2 \in SlideFrom(b, c1, s) \ {s, c1}} :
              c1 \in SlideFrom(b, s, s) \ {s}}

\* The Movements of the list from each free Spider end on the ends of its
\* walks of three slides.
SpiderWalks(b, moves) ==
    \A id \in FreeCells(b, Spider) : TargetLocs(b, moves, id) = Walk3Ends(b, loc(b, id))

\* C22: the targets of a Spider are exactly the ends of the paths of three
\* slide steps, the Spider's own cell counted as vacated, that visit four
\* different cells.
C22_SpiderTargets == SpiderWalks(board, generate_movements(board))

\* C22 witness: a free Spider of the side to move has targets, and a cell
\* it slides to in one step is not among them.
C22_Witness ==
    \E id \in FreeCells(board, Spider) :
        /\ TargetLocs(board, Moves, id) # {}
        /\ SlideLocs(board, loc(board, id)) \ TargetLocs(board, Moves, id) # {}

RECURSIVE SlideReach(_, _, _)
\* The coordinates reached from those of seen by slides of the tile that
\* started at a.
SlideReach(b, seen, a) ==
    IF UNION {SlideFrom(b, p, a) : p \in seen} \subseteq seen THEN seen
    ELSE SlideReach(b, seen \cup UNION {SlideFrom(b, p, a) : p \in seen}, a)

\* The Movements of the list from each free Ant end on the coordinates it
\* reaches by one slide or more, its own excepted, once on each.
AntWalks(b, moves) ==
    \A id \in FreeCells(b, Ant) :
        /\ TargetLocs(b, moves, id) = SlideReach(b, {loc(b, id)}, loc(b, id)) \ {loc(b, id)}
        /\ Len(MovementsFrom(moves, id)) = Cardinality(TargetLocs(b, moves, id))

\* C23: the targets of an Ant are exactly the cells reached from it by one
\* or more slide steps, the Ant's own cell counted as vacated and left out
\* of the targets; each target is emitted once.
C23_AntTargets == AntWalks(board, generate_movements(board))

\* C23 witness: a free Ant of the side to move has eight targets or more,
\* some of them not next to its cell, and an empty coordinate next to the
\* hive that it does not reach.
C23_Witness ==
    \E id \in FreeCells(board, Ant) :
        /\ Cardinality(TargetLocs(board, Moves, id)) >= 8
        /\ TargetLocs(board, Moves, id) \ Range(adjacent(loc(board, id))) # {}
        /\ \E c \in NearHive(board) :
              /\ StackAt(board, c) = <<>>
              /\ c \notin TargetLocs(board, Moves, id)
              /\ \E x \in Range(adjacent(c)) : x # loc(board, id) /\ StackAt(board, x) # <<>>

\* C24: the queens are examined before the repetition: when exactly one
\* queen is surrounded and the hash equals hash_history[n - 5], the outcome
\* is the win of the side whose queen is not surrounded, not Draw.
C24_QueensBeforeRepetition ==
    RepeatsFourBack(board)
        => /\ (Surrounded(board, to_move(board)) /\ ~Surrounded(board, 1 - to_move(board)))
                 => get_winner(board) = JustMovedWins
           /\ (Surrounded(board, 1 - to_move(board)) /\ ~Surrounded(board, to_move(board)))
                 => get_winner(board) = ToMoveWins

\* One queen is surrounded, the position repeats the one four half-moves
\* before, and the outcome is Draw.
SurroundedAndRepeated ==
    /\ RepeatsFourBack(board)
    /\ Surrounded(board, Black) # Surrounded(board, White)
    /\ get_winner(board) = Draw

\* The cells find_cut_vertexes marks.
CutLocs(b) == {loc(b, id) : id \in find_cut_vertexes(b)}

\* The occupied cells next to the cell l.
OccupiedNear(b, l) == {c \in Range(adjacent(l)) : c \in OccupiedLocs(b)}

\* C25: on a connected hive find_cut_vertexes marks a cell exactly when
\* the occupied cells without it are not connected; a cell with a single
\* occupied neighbour is never marked, and the root of the traversal is
\* marked only with two occupied neighbours or more.
C25_CutVertexes ==
    (OccupiedLocs(board) # {} /\ Connected(OccupiedLocs(board)))
        => /\ CutLocs(board) = {l \in OccupiedLocs(board) : Articulation(board, l)}
           /\ \A l \in CutLocs(board) : Cardinality(OccupiedNear(board, l)) >= 2
           /\ loc(board, FirstOccupied(board)) \in CutLocs(board)
                 => \E c, d \in OccupiedNear(board, loc(board, FirstOccupied(board))) :
                       c # d /\ c \notin Range(adjacent(d))

\* A connected hive with a marked cell, a cell with a single occupied
\* neighbour, and a root that has two occupied neighbours on a cycle with
\* it and is not marked.
C25_Witness ==
    /\ OccupiedLocs(board) # {}
    /\ Connected(OccupiedLocs(board))
    /\ CutLocs(board) # {}
    /\ \E l \in OccupiedLocs(board) : Cardinality(OccupiedNear(board, l)) = 1
    /\ Cardinality(OccupiedNear(board, loc(board, FirstOccupied(board)))) >= 2
    /\ loc(board, FirstOccupied(board)) \notin CutLocs(board)

\* The neighbour of the cell id in direction i holds a tile and is not the
\* cell origin, by coordinates.
OccupiedDir(b, origin, id, i) ==
    /\ Filled(b, adjacent(loc(b, id))[(i % 6) + 1])
    /\ adjacent(loc(b, id))[(i % 6) + 1] # loc(b, origin)

\* The directions out of the cell id whose neighbour is free and has
\* exactly one of its two side neighbours occupied, in ascending order.
FreeWithOneSide(b, origin, id) ==
    SelectSeq(<<0, 1, 2, 3, 4, 5>>,
              LAMBDA i : /\ ~OccupiedDir(b, origin, id, i)
                         /\ OccupiedDir(b, origin, id, i + 5) # OccupiedDir(b, origin, id, i + 1))

\* The same on an occupancy mask.
FreeWithOneSideOf(occ) ==
    SelectSeq(<<0, 1, 2, 3, 4, 5>>,
              LAMBDA i : /\ Bit(occ, i) = 0
                         /\ Bit(occ, (i + 5) % 6) + Bit(occ, (i + 1) % 6) = 1)

\* C26: slideable_adjacent returns the neighbour in direction i exactly
\* when it is free (the origin counting as free) and exactly one of the
\* neighbours in directions i - 1 and i + 1 (mod 6) is occupied, in
\* ascending order of direction, for each of the 64 occupancy masks.
C26_SlideableExits ==
    /\ \A occ \in 0..63 : SlideableDirs[occ] = FreeWithOneSideOf(occ)
    /\ \A id \in 1..(Len(board.nodes) - 1) : \A origin \in 0..(Len(board.nodes) - 1) :
          slideable_adjacent(board, origin, id)
              = NeighborsAt(board, id, FreeWithOneSide(board, origin, id))

\* Around the cell (0,0): direction 0 is occupied, directions 4 and 5 are
\* free, so direction 5 is an exit by the wrap-around; and taking an
\* occupied neighbour as the origin changes the exits.
C26_Witness ==
    /\ Filled(board, <<0, 0>>)
    /\ OccupiedDir(board, 1, 1, 0)
    /\ ~OccupiedDir(board, 1, 1, 4)
    /\ ~OccupiedDir(board, 1, 1, 5)
    /\ adj_of(board, 1)[6] \in Range(slideable_adjacent(board, 1, 1))
    /\ \E o \in Range(adj_of(board, 1)) :
          /\ get(board, o) # <<>>
          /\ slideable_adjacent(board, o, 1) # slideable_adjacent(board, 1, 1)

\* C27: for each of the 64 occupancy masks the number of exits is 0, 2 or
\* 4, so the result of slideable_adjacent fits its four slots.
C27_ExitCount ==
    /\ \A occ \in 0..63 : Len(SlideableDirs[occ]) \in {0, 2, 4}
    /\ \A id \in 1..(Len(board.nodes) - 1) : \A origin \in 0..(Len(board.nodes) - 1) :
          Len(slideable_adjacent(board, origin, id)) \in {0, 2, 4}

\* Each number of exits occurs around the cell (0,0): none with five
\* neighbours occupied, two with one, four with two opposite ones.
FourExits ==
    /\ Len(slideable_adjacent(board, 1, 1)) = 4
    /\ Cardinality({i \in 0..5 : OccupiedDir(board, 1, 1, i)}) = 2

C27_Witness ==
    /\ Len(slideable_adjacent(board, 1, 1)) = 0
    /\ Cardinality({i \in 0..5 : OccupiedDir(board, 1, 1, i)}) = 5

\* C28: applying Pass adds one to move_num, which turns the side to move,
\* and pushes the unchanged hash onto the history; the stacks, the
\* reserves, the queen cells, the hash and the arena stay as they are.
C28_PassOnlyTurns ==
    [][applied' = Append(applied, Pass)
          => /\ board' = [board EXCEPT !.move_num = @ + 1,
                                       !.zobrist_history = Append(@, board.zobrist_hash)]
             /\ to_move(board') # to_move(board)
             /\ board'.zobrist_hash = board.zobrist_hash
             /\ board'.nodes = board.nodes
             /\ board'.remaining = board.remaining
             /\ board'.queens = board.queens
             /\ board'.id_to_loc = board.id_to_loc
             /\ board'.loc_to_id = board.loc_to_id]_vars

\* The last move applied is a pass.
C28_Witness ==
    /\ applied # <<>>
    /\ applied[Len(applied)] = Pass
    /\ board.move_num = Len(applied)

\* The coordinates next to a cell of the arena that are not in the arena.
Fringe(b) ==
    {l \in UNION {Range(adjacent(b.id_to_loc[k])) : k \in 2..Len(b.id_to_loc)} :
        l \notin DOMAIN b.loc_to_id}

\* Allocating the new coordinate l, which gives the board b1, appends one
\* cell for l and keeps every id given before.
AllocAppends(b, l, b1) ==
    /\ loc(b1, b1.loc_to_id[l]) = l
    /\ Len(b1.nodes) = Len(b.nodes) + 1
    /\ \A k \in DOMAIN b.loc_to_id : b1.loc_to_id[k] = b.loc_to_id[k]
    /\ SubSeq(b1.id_to_loc, 1, Len(b.id_to_loc)) = b.id_to_loc

\* Cell 0 is the empty sentinel, (0,0) and (1,0) are cells 1 and 2, the two
\* maps are inverse to each other, and a call of id on a coordinate of the
\* arena changes nothing, while on a new coordinate it appends one cell and
\* keeps every id given before.
ArenaWellFormed(b) ==
    /\ b.id_to_loc[1] = fake_loc /\ b.loc_to_id[fake_loc] = 0
    /\ get(b, 0) = <<>>
    /\ b.loc_to_id[<<0, 0>>] = 1 /\ b.loc_to_id[<<1, 0>>] = 2
    /\ Len(b.id_to_loc) = Len(b.nodes)
    /\ DOMAIN b.loc_to_id = Range(b.id_to_loc)
    /\ \A l \in DOMAIN b.loc_to_id : loc(b, b.loc_to_id[l]) = l
    /\ \A l1, l2 \in DOMAIN b.loc_to_id : l1 # l2 => b.loc_to_id[l1] # b.loc_to_id[l2]
    /\ \A l \in DOMAIN b.loc_to_id : alloc(b, l) = b /\ id_for(b, l) = b.loc_to_id[l]
    /\ \A l \in Fringe(b) : id_for(b, l) = Len(b.nodes) /\ AllocAppends(b, l, alloc(b, l))

\* A step keeps every id of the arena.
ArenaGrows ==
    /\ \A l \in DOMAIN board.loc_to_id :
          l \in DOMAIN board'.loc_to_id /\ board'.loc_to_id[l] = board.loc_to_id[l]
    /\ Len(board'.id_to_loc) >= Len(board.id_to_loc)
    /\ SubSeq(board'.id_to_loc, 1, Len(board.id_to_loc)) = board.id_to_loc

\* C29: the ids of the arena are append-only and stable: cell 0 is the
\* sentinel and never holds a tile, (0,0) is cell 1 and (1,0) cell 2, a
\* coordinate keeps its id through every allocation, apply and undo,
\* distinct coordinates have distinct ids, and loc(id(c)) = c.
C29_ArenaStable == []ArenaWellFormed(board) /\ [][ArenaGrows]_vars

\* Moves were applied and undone down to the empty board, and the arena
\* holds the cells they allocated.
C29_Witness ==
    /\ undone > 0
    /\ board.move_num = 0
    /\ Len(board.nodes) > 3

\* Each link of each cell is the id of the cell at the neighbour coordinate
\* in that direction, UNASSIGNED when the arena has no such cell; and a
\* link to a cell comes back in the opposite direction.
LinksConsistent(b) ==
    /\ \A i \in 0..5 : adj_of(b, 0)[i + 1] = UNASSIGNED
    /\ \A id \in 1..(Len(b.nodes) - 1) : \A i \in 0..5 :
          /\ adj_of(b, id)[i + 1]
                = IF adjacent(loc(b, id))[i + 1] \in DOMAIN b.loc_to_id
                  THEN b.loc_to_id[adjacent(loc(b, id))[i + 1]]
                  ELSE UNASSIGNED
          /\ adj_of(b, id)[i + 1] # UNASSIGNED
                => adj_of(b, adj_of(b, id)[i + 1])[((i + 3) % 6) + 1] = id

\* Allocating the coordinate l, which gives the board b1, writes its links
\* only into entries that are UNASSIGNED, and changes no other entry of
\* the cells before it.
LinksFresh(b, l, b1) ==
    /\ \A i \in 0..5 :
          adjacent(l)[i + 1] \in DOMAIN b.loc_to_id
              => adj_of(b, b.loc_to_id[adjacent(l)[i + 1]])[((i + 3) % 6) + 1] = UNASSIGNED
    /\ \A id \in 0..(Len(b.nodes) - 1) :
          \/ adj_of(b1, id) = adj_of(b, id)
          \/ \A i \in 0..5 :
                \/ adj_of(b1, id)[i + 1] = adj_of(b, id)[i + 1]
                \/ /\ adj_of(b, id)[i + 1] = UNASSIGNED
                   /\ adj_of(b1, id)[i + 1] = Len(b.nodes)

\* C30: the links agree with the coordinates: adj[i] of a cell is the id
\* of the cell at its i-th neighbour coordinate, 0 when that coordinate is
\* not allocated; a.adj[i] = b implies b.adj[(i + 3) mod 6] = a; and an
\* allocation writes a link only over the sentinel.
C30_LinksConsistent ==
    /\ LinksConsistent(board)
    /\ \A l \in Fringe(board) :
          LinksFresh(board, l, alloc(board, l)) /\ LinksConsistent(alloc(board, l))

\* A cell of the arena has all six neighbours allocated and another has
\* some neighbour not allocated.
C30_Witness ==
    /\ \E id \in 1..(Len(board.nodes) - 1) :
          \A i \in 0..5 : adj_of(board, id)[i + 1] # UNASSIGNED
    /\ \E id \in 1..(Len(board.nodes) - 1) :
          /\ \E i \in 0..5 : adj_of(board, id)[i + 1] = UNASSIGNED
          /\ \E i \in 0..5 : adj_of(board, id)[i + 1] # UNASSIGNED
    /\ Len(board.nodes) > 20

\* The cell id has a cell of the arena in each of its six directions.
Surroundings(b, id) == \A i \in 0..5 : adj_of(b, id)[i + 1] # UNASSIGNED

\* C31: every occupied cell has its six neighbour cells allocated, also a
\* cell occupied as the destination of a Movement or occupied again by an
\* undo.
C31_OccupiedSurrounded ==
    \A id \in 1..(Len(board.nodes) - 1) : get(board, id) # <<>> => Surroundings(board, id)

\* The last move applied is a Movement whose destination is occupied and
\* has its six neighbours, one of them with a direction not allocated.
C31_Witness ==
    /\ applied # <<>>
    /\ applied[Len(applied)][1] = "Movement"
    /\ get(board, applied[Len(applied)][3]) # <<>>
    /\ Surroundings(board, applied[Len(applied)][3])
    /\ \E i \in 0..5 : ~Surroundings(board, adj_of(board, applied[Len(applied)][3])[i + 1])

\* The move m can be applied to b: a Movement lifts the top tile of the
\* side to move from a cell and sets it on another cell of the arena other
\* than the sentinel; a Place sets a bug the side to move has in reserve on
\* an empty cell of the arena other than the sentinel.
Applicable(b, m) ==
    CASE m[1] = "Movement" ->
           /\ m[2] # m[3]
           /\ m[2] \in 1..(Len(b.nodes) - 1)
           /\ get(b, m[2]) # <<>>
           /\ get(b, m[2])[1].color = to_move(b)
           /\ m[3] \in 1..(Len(b.nodes) - 1)
      [] m[1] = "Place" ->
           /\ m[2] \in 1..(Len(b.nodes) - 1)
           /\ get(b, m[2]) = <<>>
           /\ get_remaining(b)[m[3]] > 0
      [] OTHER -> m = Pass

\* Every move of the sequence can be applied to b.
AllApplicable(b, moves) == \A k \in 1..Len(moves) : Applicable(b, moves[k])

\* C32: every move generate_moves returns can be applied: no lift from an
\* empty cell, no write to cell 0, no reserve below zero.
C32_MovesApplicable == AllApplicable(board, Moves)

\* The moves hold a placement and a movement onto an occupied cell, and
\* some bug of the side to move is out of reserve.
PlaceAndClimb(b, moves) ==
    /\ \E k \in 1..Len(moves) : IsPlace(moves[k])
    /\ \E k \in 1..Len(moves) : IsMovement(moves[k]) /\ get(b, moves[k][3]) # <<>>
    /\ \E g \in Bug : get_remaining(b)[g] = 0

C32_Witness == PlaceAndClimb(board, Moves)

\* C33: a tile with another tile beneath it is a Beetle; Queens,
\* Grasshoppers, Spiders and Ants stand at height 0.
C33_OnlyBeetlesOnTop ==
    \A id \in 1..(Len(board.nodes) - 1) :
        \A k \in 1..(Len(get(board, id)) - 1) : get(board, id)[k].bug = Beetle

\* A beetle stands on a tile that is not a beetle, after a move was undone.
C33_Witness ==
    /\ undone > 0
    /\ \E id \in 1..(Len(board.nodes) - 1) :
          /\ Len(get(board, id)) = 2
          /\ get(board, id)[1].bug = Beetle
          /\ get(board, id)[2].bug # Beetle

\* The movements of the sequence moves are the sequence movements, in its
\* order.
MovementsOffered(moves, movements) == SelectSeq(moves, IsMovement) = movements

\* C34: from half-move 2 on, when the queen is not required, the movements
\* of generate_movements are among the moves generated, also for a side
\* whose queen is still in reserve.
C34_MovementsBeforeQueen ==
    (board.move_num >= 2 /\ ~queen_required(board))
        => MovementsOffered(Moves, generate_movements(board))

\* The moves hold a movement.
SomeMovement(moves) == \E k \in 1..Len(moves) : IsMovement(moves[k])

\* On a half-move from 2 to 5 the side to move has its queen in reserve and
\* is offered a movement.
C34_Witness ==
    /\ board.move_num \in 2..5
    /\ get_remaining(board)[Queen] > 0
    /\ SomeMovement(Moves)

\* C35: when the move the player to move answers with is not among the
\* generated moves of the board of face_off, face_off returns the name of
\* the other player, and the move is applied to no board and handed to no
\* player.
C35_IllegalMoveLoses ==
    [][turn' \notin Range(generate_moves(board))
          => /\ outcome' = Returned(Name(1 - p_index))
             /\ board' = board
             /\ applied' = applied
             /\ players' = players]_vars

\* face_off has returned on an illegal answer of the second player, after
\* moves were played.
C35_Witness ==
    /\ outcome = Returned(Name(0))
    /\ p_index = 1
    /\ applied # <<>>
    /\ turn \notin Range(generate_moves(board))
    /\ players[1].got = applied /\ players[2].got = applied

\* While face_off runs, each player has been handed exactly the moves
\* applied to the board of face_off, once each and in order, its own board
\* is that board, and the player to move is the first on even half-moves
\* and the second on odd ones.
InStep ==
    outcome = Running
        => /\ players[1].got = applied /\ players[2].got = applied
           /\ players[1].board = board /\ players[2].board = board
           /\ p_index = Len(applied) % 2

\* Once face_off has returned on a winner, the move that ended the game is
\* on its board and was handed to neither player.
LastMoveKept ==
    (outcome # Running /\ turn \in Range(generate_moves(players[1].board)))
        => /\ get_winner(board) # None
           /\ applied = Append(players[1].got, turn)
           /\ applied = Append(players[2].got, turn)
           /\ board = apply(turn, players[1].board)
           /\ players[2].board = players[1].board

\* A turn applies its move once at most, and changes the player to move
\* exactly when it hands the move on.
OneMoveATurn ==
    /\ applied' = applied \/ applied' = Append(applied, turn')
    /\ (p_index' # p_index) = (players' # players)
    /\ players' # players
          => /\ players'[1].got = Append(players[1].got, turn')
             /\ players'[2].got = Append(players[2].got, turn')

\* C36: every accepted move that does not end the game is applied once to
\* the board of face_off and handed once to each player before the next
\* generate_move, the players move in turn, and at each generate_move the
\* board of the player asked is the board of face_off; a move that ends the
\* game is handed to no player.
C36_PlayersInStep == [](InStep /\ LastMoveKept) /\ [][OneMoveATurn]_vars

\* face_off has returned on a winner after more than two half-moves.
C36_Witness ==
    /\ outcome # Running
    /\ get_winner(board) # None
    /\ Len(applied) > 2
    /\ applied = Append(players[1].got, turn)

\* face_off runs and the second player is asked after an odd number of
\* half-moves.
SecondPlayerAsked ==
    /\ outcome = Running
    /\ p_index = 1
    /\ Len(applied) >= 3
    /\ players[2].board = board

\* The cells whose top tile counts in the score, by coordinates: those on
\* a stack and those whose removal leaves the hive connected.
Counted(b) ==
    {id \in 1..(Len(b.nodes) - 1) :
        /\ get(b, id) # <<>>
        /\ (Len(get(b, id)) > 1 \/ ~Articulation(b, loc(b, id)))}

\* The values of the top tiles of the colour on the cells ids.
TileValues(b, ids, color) ==
    SumSeq([k \in 1..Len(b.nodes) |->
              IF (k - 1) \in ids /\ get(b, k - 1)[1].color = color
              THEN value(get(b, k - 1)[1].bug) ELSE 0])

\* The score from the side of the colour: its counted tiles less the
\* other's, and twenty for each neighbour of the other queen less twenty
\* for each of its own.
ScoreFor(b, color, surrounded, ids) ==
    (TileValues(b, ids, color) - TileValues(b, ids, 1 - color))
        + 20 * (surrounded[1 - color] - surrounded[color])

\* The score of a board is the negated score of the board after a Pass,
\* and is the score from the side to move with the tiles at ground level on
\* cut vertices left out.
Relative(b, passed, score) ==
    /\ evaluate(passed) = 0 - score
    /\ score = ScoreFor(b, to_move(b), queens_surrounded(b), Counted(b))
    /\ score = 0 - ScoreFor(b, 1 - to_move(b), queens_surrounded(b), Counted(b))

====
